---- MODULE Spec2Model ----
(***************************************************************************)
(* Model of the group assignment engine: the /assign router and its        *)
(* validator, the three assigners of api/services/assigner.py and the      *)
(* pair-frequency evaluation of notebooks/utils/evaluation.py.             *)
(*                                                                         *)
(* A participant list is a sequence of participant ids, a round is a       *)
(* function from room id (1..total_rooms) to the sequence of its members,  *)
(* a schedule is a sequence of rounds.                                     *)
(***************************************************************************)
EXTENDS Integers, Sequences, FiniteSets, TLC

\* Largest participant and room count a request or a direct call carries.
MaxN == 4
\* Largest round count a request or a direct call carries.
MaxT == 2
\* Largest number of placements (participants times rounds) of one run.
MaxPlacements == 8

VARIABLES
    pc,                 \* position of the run: idle, round, fill, returned, rejected, raised, evaluated
    algo,               \* class of the constructed assigner, "none" when none was constructed
    request,            \* <<participants, rooms, rounds>> of the HTTP request, <<>> for a direct call
    status_code,        \* HTTP status of the response, 0 while there is none
    response,           \* the schedule the caller received (<<>> while or when it received none)
    total_participants,
    total_rooms,
    total_rounds,
    participants,       \* self.participants
    room_size,          \* self.room_size
    remainder,          \* self.remainder
    results,            \* the local list results (assignments in OptimizationAssigner)
    round_assignment,   \* GreedyAssigner: the round under construction
    assigned,           \* GreedyAssigner: set of participants placed in this round
    participants_copy,  \* GreedyAssigner: the pool
    room,               \* GreedyAssigner: the room being filled
    candidate,          \* GreedyAssigner: the last selected candidate, 0 before the first
    pair_history,       \* GreedyAssigner: dict frozenset -> count, keys as the defaultdict holds them
    history,            \* OptimizationAssigner: set of tuples <<i1, i2>>
    rng_stream,         \* values the process-wide generator has yielded since it was seeded
    rng_pos,            \* how many values of rng_stream the generator has yielded since the last seed
    run_no,             \* number of generate_assignments calls started
    fresh,              \* whether the current call runs on a newly constructed instance
    first_schedule,     \* schedule returned by the first call, kept by the caller
    pair_frequencies    \* result of calc_pair_frequencies, empty before the evaluation

vars == <<pc, algo, request, status_code, response, total_participants, total_rooms,
          total_rounds, participants, room_size, remainder, results, round_assignment,
          assigned, participants_copy, room, candidate, pair_history, history,
          rng_stream, rng_pos, run_no, fresh, first_schedule, pair_frequencies>>

assignerVars == <<algo, total_participants, total_rooms, total_rounds, room_size, remainder>>
greedyLocals == <<round_assignment, assigned, participants_copy, room, candidate>>
callerVars == <<run_no, fresh, first_schedule>>

----------------------------------------------------------------------------
\* Generic helpers on sequences and finite functions.

Range(s) == {s[i] : i \in DOMAIN s}

RECURSIVE SumOver(_, _)
\* Sum of f[x] for x in S.
SumOver(f, S) ==
    IF S = {} THEN 0
    ELSE LET x == CHOOSE y \in S : TRUE IN f[x] + SumOver(f, S \ {x})

\* list[a:b] of Python for 0 <= a, with b clipped to the length.
Slice(list, a, b) ==
    LET hi == IF b > Len(list) THEN Len(list) ELSE b
    IN IF a >= hi THEN <<>> ELSE SubSeq(list, a + 1, hi)

\* The list with the first occurrence of x removed (list.remove).
Remove(list, x) ==
    LET k == CHOOSE i \in 1..Len(list) : list[i] = x /\ \A j \in 1..(i - 1) : list[j] # x
    IN SubSeq(list, 1, k - 1) \o SubSeq(list, k + 1, Len(list))

\* itertools.combinations(list, 2) as index pairs, i before j.
Combinations2(list) == {<<i, j>> \in (1..Len(list)) \X (1..Len(list)) : i < j}

\* n choose 2.
Choose2(n) == (n * (n - 1)) \div 2

----------------------------------------------------------------------------
\* The process-wide random generator.

\* Values random.shuffle draws for a list of n elements: for i = n-1 down to 1,
\* randbelow(i + 1); ds[k] is the draw for i = n - k.
DrawSeqs(n) == {ds \in [1..(n - 1) -> 0..(n - 1)] : \A k \in 1..(n - 1) : ds[k] <= n - k}

RECURSIVE ShuffleFrom(_, _, _)
ShuffleFrom(x, ds, k) ==
    IF k > Len(ds) THEN x
    ELSE LET i == Len(x) - k + 1
             j == ds[k] + 1
             swapped == [x EXCEPT ![i] = x[j], ![j] = x[i]]
         IN ShuffleFrom(swapped, ds, k + 1)

\* random.shuffle(x) given the values the generator yields.
Shuffle(x, ds) == ShuffleFrom(x, ds, 1)

\* The generator is deterministic: values it yielded since the seed are yielded
\* again after a reseed, values beyond them are not determined yet.
Yields(ds) == \A k \in 1..Len(ds) : rng_pos + k <= Len(rng_stream) => ds[k] = rng_stream[rng_pos + k]

Advance(ds) ==
    /\ rng_pos' = rng_pos + Len(ds)
    /\ rng_stream' = IF rng_pos + Len(ds) > Len(rng_stream)
                     THEN SubSeq(rng_stream, 1, rng_pos) \o ds
                     ELSE rng_stream

\* random.seed(0): position of the generator in its stream after seeding.
random_seed_kept(pos) == pos
random_seed(pos) == 0

----------------------------------------------------------------------------
\* BaseAssigner

InitParticipants(n) == [i \in 1..n |-> i]

_get_room_size_rounded_up(base, rem, r) == base + (IF rem > 0 THEN 1 ELSE 0)
_get_room_size_strict(base, rem, r) == base + (IF r < rem THEN 1 ELSE 0)
_get_room_size(base, rem, r) == base + (IF r <= rem THEN 1 ELSE 0)

\* BaseAssigner.__init__ for the class cls.
Construct(cls, n, r, t) ==
    /\ algo' = cls
    /\ total_participants' = n
    /\ total_rooms' = r
    /\ total_rounds' = t
    /\ participants' = InitParticipants(n)
    /\ room_size' = n \div r
    /\ remainder' = n % r

----------------------------------------------------------------------------
\* Router and validator

validate_no_order_check(p, r, t) ==
    IF p < 1 THEN 400
    ELSE IF r < 1 THEN 400
    ELSE IF t < 1 THEN 400
    ELSE 0
\* Status of the HTTPException validate_assignment_request raises, 0 when it returns.
validate_assignment_request(p, r, t) ==
    IF p < 1 THEN 400
    ELSE IF r < 1 THEN 400
    ELSE IF t < 1 THEN 400
    ELSE IF p < r THEN 400
    ELSE 0

----------------------------------------------------------------------------
\* State before any request: the module is loaded, random.seed(0) has run.

Init ==
    /\ pc = "idle"
    /\ algo = "none"
    /\ request = <<>>
    /\ status_code = 0
    /\ response = <<>>
    /\ total_participants = 0
    /\ total_rooms = 0
    /\ total_rounds = 0
    /\ participants = <<>>
    /\ room_size = 0
    /\ remainder = 0
    /\ results = <<>>
    /\ round_assignment = <<>>
    /\ assigned = {}
    /\ participants_copy = <<>>
    /\ room = 0
    /\ candidate = 0
    /\ pair_history = [k \in {} |-> 0]
    /\ history = {}
    /\ rng_stream = <<>>
    /\ rng_pos = 0
    /\ run_no = 0
    /\ fresh = FALSE
    /\ first_schedule = <<>>
    /\ pair_frequencies = <<>>

\* The triples of integers a request or a direct call carries.
Inputs == {inp \in (-1..MaxN) \X (-1..MaxN) \X (-1..MaxT) : inp[1] * inp[3] <= MaxPlacements}

\* The try block of a route up to the call of generate_assignments: validation,
\* then construction of the assigner of class cls.
Route(cls, p, r, t) ==
    /\ pc = "idle"
    /\ request' = <<p, r, t>>
    /\ IF validate_assignment_request(p, r, t) # 0
       THEN /\ pc' = "rejected"
            /\ status_code' = validate_assignment_request(p, r, t)
            /\ UNCHANGED <<assignerVars, participants, callerVars>>
       ELSE /\ pc' = "round"
            /\ status_code' = 0
            /\ Construct(cls, p, r, t)
            /\ run_no' = 1
            /\ fresh' = TRUE
            /\ UNCHANGED first_schedule
    /\ UNCHANGED <<response, results, greedyLocals, pair_history, history,
                   rng_stream, rng_pos, pair_frequencies>>

assign_greedy == \E inp \in Inputs : Route("greedy", inp[1], inp[2], inp[3])

assign_random == \E inp \in Inputs : Route("random", inp[1], inp[2], inp[3])

\* A caller other than the router constructs an assigner of class cls on input
\* it has validated and calls generate_assignments.
DirectCall(cls) ==
    \E inp \in Inputs :
        /\ pc = "idle"
        /\ inp[1] >= inp[2] /\ inp[2] >= 1 /\ inp[3] >= 1
        /\ Construct(cls, inp[1], inp[2], inp[3])
        /\ pc' = "round"
        /\ run_no' = 1
        /\ fresh' = TRUE
        /\ UNCHANGED <<request, status_code, response, results, greedyLocals, pair_history,
                       history, rng_stream, rng_pos, first_schedule, pair_frequencies>>

\* End of a loop iteration of generate_assignments with the list res: the next
\* iteration, or the return to the caller (the route answers 200).
Continue(res) ==
    /\ results' = res
    /\ IF Len(res) >= total_rounds
       THEN /\ pc' = "returned"
            /\ response' = res
            /\ status_code' = IF request # <<>> /\ run_no = 1 THEN 200 ELSE status_code
       ELSE /\ pc' = "round"
            /\ UNCHANGED <<response, status_code>>

----------------------------------------------------------------------------
\* RandomAssigner

RECURSIVE RoomStart(_, _, _)
\* Value of idx when the room loop reaches room r.
RoomStart(base, rem, r) ==
    IF r <= 1 THEN 0 ELSE RoomStart(base, rem, r - 1) + _get_room_size(base, rem, r - 1)

\* The room loop of RandomAssigner.generate_assignments on the shuffled list.
RandomRoundAssignment(list, base, rem, rooms) ==
    [r \in 1..rooms |->
        Slice(list, RoomStart(base, rem, r),
              RoomStart(base, rem, r) + _get_room_size(base, rem, r))]

\* One iteration of the round loop of RandomAssigner.generate_assignments.
RandomRound ==
    /\ pc = "round"
    /\ algo = "random"
    /\ \E ds \in DrawSeqs(Len(participants)) :
        /\ Yields(ds)
        /\ Advance(ds)
        /\ LET shuffled == Shuffle(participants, ds)
           IN /\ participants' = shuffled
              /\ Continue(Append(results,
                     RandomRoundAssignment(shuffled, room_size, remainder, total_rooms)))
    /\ UNCHANGED <<assignerVars, request, greedyLocals, pair_history, history,
                   callerVars, pair_frequencies>>

----------------------------------------------------------------------------
\* GreedyAssigner

\* frozenset((a, b))
Pair(a, b) == {a, b}

\* Value of a defaultdict(int) at key k, without the insertion a read performs.
Count(h, k) == IF k \in DOMAIN h THEN h[k] ELSE 0

\* The defaultdict after reading the keys ks: a missing key is inserted with 0.
Touch(h, ks) == [k \in (DOMAIN h) \cup ks |-> Count(h, k)]

\* sum(self.pair_history[frozenset((candidate, member))] for member in room_members)
_calculate_pair_score(h, c, room_members) ==
    SumOver([i \in DOMAIN room_members |-> Count(h, Pair(c, room_members[i]))],
            DOMAIN room_members)

\* Keys of pair_history that scoring every pool member against the room reads.
ScoredKeys(pool, room_members) ==
    {Pair(pool[i], room_members[j]) : i \in DOMAIN pool, j \in DOMAIN room_members}

_update_first_member_only(h, c, room_members) ==
    LET hit(k) == {i \in DOMAIN room_members :
                      i = 1 /\ room_members[i] # c /\ Pair(c, room_members[i]) = k}
        keys == {Pair(c, room_members[i]) : i \in {j \in DOMAIN room_members : j = 1 /\ room_members[j] # c}}
    IN [k \in (DOMAIN h) \cup keys |-> Count(h, k) + Cardinality(hit(k))]
\* pair_history after _update_pair_history(candidate, room_members): one increment
\* per member of the list other than the candidate.
_update_pair_history(h, c, room_members) ==
    LET hit(k) == {i \in DOMAIN room_members :
                      room_members[i] # c /\ Pair(c, room_members[i]) = k}
        keys == {Pair(c, room_members[i]) : i \in {j \in DOMAIN room_members : room_members[j] # c}}
    IN [k \in (DOMAIN h) \cup keys |-> Count(h, k) + Cardinality(hit(k))]

RECURSIVE MinLast(_, _, _, _, _)
MinLast(h, pool, room_members, k, best) ==
    IF k > Len(pool) THEN best
    ELSE IF _calculate_pair_score(h, pool[k], room_members)
            <= _calculate_pair_score(h, best, room_members)
         THEN MinLast(h, pool, room_members, k + 1, pool[k])
         ELSE MinLast(h, pool, room_members, k + 1, best)

RECURSIVE MinFrom(_, _, _, _, _)
\* min(pool, key=score) from position k on: the running minimum is replaced only
\* by a strictly smaller key.
MinFrom(h, pool, room_members, k, best) ==
    IF k > Len(pool) THEN best
    ELSE IF _calculate_pair_score(h, pool[k], room_members)
            < _calculate_pair_score(h, best, room_members)
         THEN MinFrom(h, pool, room_members, k + 1, pool[k])
         ELSE MinFrom(h, pool, room_members, k + 1, best)

_select_last_minimal(h, pool, room_members) == MinLast(h, pool, room_members, 2, pool[1])
\* The min branch of _select_next_candidate, for a non-empty pool.
_select_next_candidate(h, pool, room_members) == MinFrom(h, pool, room_members, 2, pool[1])

RECURSIVE Sorted(_)
\* The elements of a set of integers in ascending order.
Sorted(S) ==
    IF S = {} THEN <<>>
    ELSE LET m == CHOOSE x \in S : \A y \in S : x <= y IN <<m>> \o Sorted(S \ {m})

RECURSIVE NextRoom(_, _, _, _, _)
\* The room loop from room r on, up to the next evaluation of the while condition
\* that holds: the rooms at capacity are passed, each entered room gets its key.
\* done tells that the room loop has ended.
NextRoom(ra, r, base, rem, rooms) ==
    IF Len(ra[r]) < _get_room_size(base, rem, r) THEN [ra |-> ra, room |-> r, done |-> FALSE]
    ELSE IF r >= rooms THEN [ra |-> ra, room |-> r, done |-> TRUE]
    ELSE NextRoom(Append(ra, <<>>), r + 1, base, rem, rooms)

\* After the body of the while loop: the next iteration, or the end of the round.
GreedyAdvance(ra) ==
    LET nxt == NextRoom(ra, room, room_size, remainder, total_rooms)
    IN /\ round_assignment' = nxt.ra
       /\ room' = nxt.room
       /\ IF nxt.done
          THEN Continue(Append(results, nxt.ra))
          ELSE /\ pc' = "fill"
               /\ UNCHANGED <<results, response, status_code>>

\* Start of an iteration of the round loop of GreedyAssigner.generate_assignments,
\* up to the first evaluation of the while condition that holds.
GreedyStartRound ==
    /\ pc = "round"
    /\ algo = "greedy"
    /\ \E ds \in DrawSeqs(Len(participants)) :
        /\ Yields(ds)
        /\ Advance(ds)
        /\ participants_copy' = Shuffle(participants, ds)
    /\ assigned' = {}
    /\ LET nxt == NextRoom(<<<<>>>>, 1, room_size, remainder, total_rooms)
       IN /\ round_assignment' = nxt.ra
          /\ room' = nxt.room
          /\ IF nxt.done
             THEN Continue(Append(results, nxt.ra))
             ELSE /\ pc' = "fill"
                  /\ UNCHANGED <<results, response, status_code>>
    /\ UNCHANGED <<assignerVars, request, participants, candidate, pair_history, history,
                   callerVars, pair_frequencies>>

\* The body of the while loop for the selected candidate c, pair_history being h
\* after the selection.
GreedyBody(c, h) ==
    LET pool == IF c \in Range(participants_copy) THEN Remove(participants_copy, c)
                ELSE participants_copy
        members == Append(round_assignment[room], c)
    IN /\ candidate' = c
       /\ participants_copy' = pool
       /\ IF c \notin assigned
          THEN /\ assigned' = assigned \cup {c}
               /\ pair_history' = _update_pair_history(h, c, members)
               /\ GreedyAdvance([round_assignment EXCEPT ![room] = members])
          ELSE /\ pair_history' = h
               /\ GreedyAdvance(round_assignment)
               /\ UNCHANGED assigned

\* One iteration of the while loop: selection, removal from the pool, placement.
GreedyPlace ==
    /\ pc = "fill"
    /\ algo = "greedy"
    /\ LET room_members == round_assignment[room]
           unplaced == Sorted(Range(participants) \ Range(room_members))
       IN IF participants_copy # <<>>
          THEN /\ GreedyBody(_select_next_candidate(pair_history, participants_copy, room_members),
                             Touch(pair_history, ScoredKeys(participants_copy, room_members)))
               /\ UNCHANGED <<rng_stream, rng_pos>>
          ELSE IF unplaced # <<>>
          THEN \E d \in 0..(Len(unplaced) - 1) :
                  /\ Yields(<<d>>)
                  /\ Advance(<<d>>)
                  /\ GreedyBody(unplaced[d + 1], pair_history)
          ELSE \* random.choice of an empty list raises IndexError: the route answers 500
               /\ pc' = "raised"
               /\ status_code' = 500
               /\ UNCHANGED <<response, results, greedyLocals, pair_history, rng_stream, rng_pos>>
    /\ UNCHANGED <<assignerVars, request, participants, history, callerVars, pair_frequencies>>

----------------------------------------------------------------------------
\* OptimizationAssigner

RECURSIVE Distribute(_, _, _, _)
\* for i, participant in enumerate(remainder): assignment[(i % rooms) + 1].append(participant)
\* from the 0-based position i on.
Distribute(assignment, rest, i, rooms) ==
    IF i >= Len(rest) THEN assignment
    ELSE Distribute([assignment EXCEPT ![(i % rooms) + 1] = Append(@, rest[i + 1])],
                    rest, i + 1, rooms)

\* _generate_random_assignment on the shuffled copy.
_generate_random_assignment(shuffled, base, rooms) ==
    Distribute([j \in 1..rooms |-> Slice(shuffled, (j - 1) * base, j * base)],
               Slice(shuffled, rooms * base, Len(shuffled)), 0, rooms)

\* The tuples the two loops over combinations(members, 2) add to self.history:
\* each pair in the order the room's list holds its two members.
RecordedPairs(assignment) ==
    UNION {{<<assignment[r][c[1]], assignment[r][c[2]]>> : c \in Combinations2(assignment[r])} :
             r \in DOMAIN assignment}

\* Constraint 1: the rooms x gives each participant (each participant in one room).
Assignments(plist, rooms) == [Range(plist) -> 1..rooms]

OccupancyNoLowerBound(count, base) == count <= base + 1
\* Constraint 2 for a room holding count participants.
Occupancy(count, base) == count >= base /\ count <= base + 1

Feasible(plist, base, rooms) ==
    {x \in Assignments(plist, rooms) :
        \A j \in 1..rooms : Occupancy(Cardinality({i \in Range(plist) : x[i] = j}), base)}

\* Value of the objective at x, the y variables at their least admissible values:
\* the combinations (i1, i2) of self.participants that are in hist and share a room.
Objective(x, plist, hist) ==
    Cardinality({c \in Combinations2(plist) :
                    /\ <<plist[c[1]], plist[c[2]]>> \in hist
                    /\ x[plist[c[1]]] = x[plist[c[2]]]})

\* The solutions a solver may report with status Optimal.
OptimalSolutions(plist, base, rooms, hist) ==
    LET feas == Feasible(plist, base, rooms)
        best == CHOOSE v \in {Objective(x, plist, hist) : x \in feas} :
                    \A w \in {Objective(x, plist, hist) : x \in feas} : v <= w
    IN {x \in feas : Objective(x, plist, hist) = best}

\* {j + 1: [i for i in self.participants if value(x[i, j]) == 1] for j in rooms}
Extract(x, plist, rooms) == [j \in 1..rooms |-> SelectSeq(plist, LAMBDA i : x[i] = j)]

\* Names of pulp.LpStatus.
LpStatus == {"Optimal", "Not Solved", "Infeasible", "Unbounded", "Undefined"}

\* OptimizationAssigner.generate_assignments up to the round loop: the first round.
OptFirstRound ==
    /\ pc = "round"
    /\ algo = "optimization"
    /\ results = <<>>
    /\ \E ds \in DrawSeqs(Len(participants)) :
        /\ Yields(ds)
        /\ Advance(ds)
        /\ LET first_round == _generate_random_assignment(Shuffle(participants, ds),
                                                          room_size, total_rooms)
           IN /\ history' = history \cup RecordedPairs(first_round)
              /\ Continue(<<first_round>>)
    /\ UNCHANGED <<assignerVars, request, participants, greedyLocals, pair_history,
                   callerVars, pair_frequencies>>

\* One iteration of the round loop: _optimize_round, then the bookkeeping. The
\* HTTPException of _optimize_round leaves generate_assignments: the caller gets
\* the exception and no list.
OptRound ==
    /\ pc = "round"
    /\ algo = "optimization"
    /\ results # <<>>
    /\ \E status \in LpStatus :
        IF status = "Optimal"
        THEN \E x \in OptimalSolutions(participants, room_size, total_rooms, history) :
                LET assignment == Extract(x, participants, total_rooms)
                IN IF assignment # <<>>
                   THEN /\ history' = history \cup RecordedPairs(assignment)
                        /\ Continue(Append(results, assignment))
                   ELSE /\ pc' = "returned"
                        /\ response' = results
                        /\ UNCHANGED <<history, results, status_code>>
        ELSE /\ pc' = "raised"
             /\ status_code' = 500
             /\ UNCHANGED <<history, results, response>>
    /\ UNCHANGED <<assignerVars, request, participants, greedyLocals, pair_history,
                   rng_stream, rng_pos, callerVars, pair_frequencies>>

----------------------------------------------------------------------------
\* Evaluation

\* One entry per round, room and combination of two positions of the room's list.
Occurrences(assignments) ==
    {<<t, r, c>> \in (DOMAIN assignments) \X (1..MaxN + 1) \X Combinations2(InitParticipants(MaxN + 1)) :
        /\ r \in DOMAIN assignments[t]
        /\ c \in Combinations2(assignments[t][r])}

\* frozenset(pair) of an occurrence.
KeyOf(assignments, o) == Pair(assignments[o[1]][o[2]][o[3][1]], assignments[o[1]][o[2]][o[3][2]])

calc_pair_frequencies_permutations(assignments) ==
    LET occ == Occurrences(assignments)
    IN [k \in {KeyOf(assignments, o) : o \in occ} |->
            2 * Cardinality({o \in occ : KeyOf(assignments, o) = k})]
\* The dict calc_pair_frequencies returns: each key counts its occurrences.
calc_pair_frequencies(assignments) ==
    LET occ == Occurrences(assignments)
    IN [k \in {KeyOf(assignments, o) : o \in occ} |->
            Cardinality({o \in occ : KeyOf(assignments, o) = k})]

\* The caller passes the schedule it received to the evaluation.
Evaluate ==
    /\ pc = "returned"
    /\ pc' = "evaluated"
    /\ pair_frequencies' = calc_pair_frequencies(response)
    /\ UNCHANGED <<assignerVars, request, status_code, response, participants, results,
                   greedyLocals, pair_history, history, rng_stream, rng_pos, callerVars>>

----------------------------------------------------------------------------
\* A second call of generate_assignments with the generator seeded again.

\* The caller keeps the schedule, seeds the generator and calls
\* generate_assignments again, on a new instance (newInstance) or on the same one.
Rerun(newInstance) ==
    /\ pc = "returned"
    /\ run_no = 1
    /\ first_schedule' = response
    /\ rng_pos' = random_seed(rng_pos)
    /\ run_no' = 2
    /\ fresh' = newInstance
    /\ participants' = IF newInstance THEN InitParticipants(total_participants) ELSE participants
    /\ results' = <<>>
    /\ response' = <<>>
    /\ pc' = "round"
    /\ UNCHANGED <<assignerVars, request, status_code, greedyLocals, pair_history, history,
                   rng_stream, pair_frequencies>>

RerunFresh == Rerun(TRUE)

RerunSame == Rerun(FALSE)

----------------------------------------------------------------------------
\* Specifications

DirectOptimization == DirectCall("optimization")

DirectRandom == DirectCall("random")

Next ==
    \/ assign_greedy
    \/ assign_random
    \/ DirectOptimization
    \/ RandomRound
    \/ GreedyStartRound
    \/ GreedyPlace
    \/ OptFirstRound
    \/ OptRound
    \/ Evaluate

Spec == Init /\ [][Next]_vars

\* Two seeded runs of RandomAssigner.
NextSeeded ==
    \/ DirectRandom
    \/ RandomRound
    \/ RerunFresh
    \/ RerunSame

SpecSeeded == Init /\ [][NextSeeded]_vars

----------------------------------------------------------------------------
\* Vocabulary of the properties, defined from the input alone.

\* N div R and N mod R of the constructed assigner.
Base == total_participants \div total_rooms
Rem == total_participants % total_rooms

\* capacity(j) of the room with id j.
Capacity(j) == IF j <= Rem THEN Base + 1 ELSE Base

\* Number of places the round rd gives participant p.
Places(rd, p) == Cardinality({<<r, i>> \in (DOMAIN rd) \X (1..total_participants) :
                                 i \in DOMAIN rd[r] /\ rd[r][i] = p})

\* rd has one list per room 1..R and places each of 1..N exactly once, nobody else.
ExactPartition(rd) ==
    /\ DOMAIN rd = 1..total_rooms
    /\ \A r \in DOMAIN rd : Range(rd[r]) \subseteq 1..total_participants
    /\ \A p \in 1..total_participants : Places(rd, p) = 1

\* Every room of rd holds Base or Base + 1 members, exactly Rem of them Base + 1.
Balanced(rd) ==
    /\ \A r \in DOMAIN rd : Len(rd[r]) \in {Base, Base + 1}
    /\ Cardinality({r \in DOMAIN rd : Len(rd[r]) = Base + 1}) = Rem

\* a and b share a room of rd.
Together(rd, a, b) == \E r \in DOMAIN rd : a \in Range(rd[r]) /\ b \in Range(rd[r])

\* The unordered pairs of distinct participants.
AllPairs == {{a, b} : a, b \in 1..total_participants} \ {{a} : a \in 1..total_participants}

\* The unordered pairs that share a room of rd.
SharedPairs(rd) == {k \in AllPairs : \E a, b \in k : a # b /\ Together(rd, a, b)}

\* The unordered pairs that shared a room in a round of sched before round k.
SeenBefore(sched, k) == UNION {SharedPairs(sched[m]) : m \in 1..(k - 1)}

\* Number of rounds of sched in which the pair k shares a room.
RoundsTogether(sched, k) == Cardinality({t \in DOMAIN sched : k \in SharedPairs(sched[t])})

----------------------------------------------------------------------------
\* C1: every round an assigner has produced places each participant 1..N in
\* exactly one room, every room holds N div R or N div R + 1 members, and exactly
\* N mod R rooms hold N div R + 1.
C1_BalancedPartition ==
    algo \in {"random", "greedy", "optimization"} =>
        \A t \in DOMAIN results : ExactPartition(results[t]) /\ Balanced(results[t])

\* An optimized round of an uneven instance has been returned.
C1_Witness ==
    /\ algo = "optimization"
    /\ pc = "returned"
    /\ Len(response) = 2
    /\ Rem > 0
    /\ total_rooms > 1

\* C2: when the solver reports a non-optimal status in a round k >= 2, the caller
\* receives the rounds produced so far, a non-empty prefix, with the error signal.
C2_PrefixWithError ==
    (algo = "optimization" /\ pc = "raised") =>
        /\ status_code = 500
        /\ Len(response) >= 1
        /\ response = results

----------------------------------------------------------------------------
\* The reference the optimization claims compare with.

\* Every way to give each of 1..N one of the rooms 1..R with Base or Base + 1
\* members in every room.
BalancedChoices ==
    {x \in [1..total_participants -> 1..total_rooms] :
        \A j \in 1..total_rooms :
            Cardinality({i \in 1..total_participants : x[i] = j}) \in {Base, Base + 1}}

\* The unordered pairs x puts in one room.
ChoicePairs(x) == {k \in AllPairs : \A a, b \in k : x[a] = x[b]}

RECURSIVE RepeatFree(_, _, _)
\* Some n further rounds exist none of which repeats a pair of used or of another.
RepeatFree(choices, used, n) ==
    IF n = 0 THEN TRUE
    ELSE \E P \in choices : P \cap used = {} /\ RepeatFree(choices, used \cup P, n - 1)

\* A schedule of n rounds without a repeated pair exists for the instance.
ZeroRepeatAchievable(n) == RepeatFree({ChoicePairs(x) : x \in BalancedChoices}, {}, n)

\* Least number of already seen pairs a balanced round can put together.
MinRepeats(seen) ==
    LET counts == {Cardinality(ChoicePairs(x) \cap seen) : x \in BalancedChoices}
    IN CHOOSE v \in counts : \A w \in counts : v <= w

\* C3: when N is a multiple of R and a schedule of T rounds without a repeated
\* pair exists, no round after the first of OptimizationAssigner puts together a
\* pair that shared a room in an earlier round of the run.
C3_NoRepeatWhenAchievable ==
    (/\ algo = "optimization"
     /\ Len(results) >= 2
     /\ total_participants % total_rooms = 0
     /\ ZeroRepeatAchievable(total_rounds)) =>
        \A k \in 2..Len(results) : SharedPairs(results[k]) \cap SeenBefore(results, k) = {}

\* C4: each round after the first of OptimizationAssigner attains the minimum,
\* over the balanced assignments, of the number of pairs put together that shared
\* a room in an earlier round, whatever the order a room listed the two in.
C4_PerRoundMinimum ==
    algo = "optimization" =>
        \A k \in 2..Len(results) :
            Cardinality(SharedPairs(results[k]) \cap SeenBefore(results, k))
                = MinRepeats(SeenBefore(results, k))

\* C5 as stated: in every round of every assigner the room with id j holds
\* exactly capacity(j) members.
C5_CapacityById ==
    \A t \in DOMAIN results : \A j \in DOMAIN results[t] : Len(results[t][j]) = Capacity(j)

\* C5 as amended: the room with id j holds exactly capacity(j) members in every
\* round of RandomAssigner and GreedyAssigner and in round 1 of
\* OptimizationAssigner; a later round of OptimizationAssigner has Base or
\* Base + 1 members in every room and exactly N mod R rooms with Base + 1.
C5_CapacityByIdUnlessOptimized ==
    \A t \in DOMAIN results :
        IF algo = "optimization" /\ t >= 2
        THEN Balanced(results[t])
        ELSE \A j \in DOMAIN results[t] : Len(results[t][j]) = Capacity(j)

\* An optimized round whose larger room is not among the rooms 1..(N mod R).
C5_Witness ==
    /\ algo = "optimization"
    /\ pc = "returned"
    /\ Len(response) >= 2
    /\ \E j \in DOMAIN response[2] : j > Rem /\ Len(response[2][j]) = Base + 1

\* C6: a request with participants < 1, rooms < 1, rounds < 1 or participants <
\* rooms is answered 400 without an assigner being constructed or run; an assigner
\* exists only for a request that meets all four conditions.
C6_ValidatedBeforeCore ==
    request # <<>> =>
        LET p == request[1]
            r == request[2]
            t == request[3]
        IN /\ (p < 1 \/ r < 1 \/ t < 1 \/ p < r) =>
                  /\ pc = "rejected"
                  /\ status_code = 400
                  /\ algo = "none"
                  /\ run_no = 0
                  /\ results = <<>>
                  /\ rng_pos = 0
           /\ (algo # "none" \/ run_no > 0) => (p >= 1 /\ r >= 1 /\ t >= 1 /\ p >= r)
           /\ algo \in {"none", "greedy", "random"}

\* A request with more rooms than participants has been rejected.
C6_Witness ==
    /\ request # <<>>
    /\ pc = "rejected"
    /\ status_code = 400
    /\ request[1] >= 1
    /\ request[3] >= 1
    /\ request[2] > request[1]

----------------------------------------------------------------------------
\* The rooms of two schedules hold the same participants, round by round.
SameSchedule(s1, s2) ==
    /\ Len(s1) = Len(s2)
    /\ \A t \in DOMAIN s1 :
        /\ DOMAIN s1[t] = DOMAIN s2[t]
        /\ \A r \in DOMAIN s1[t] : Range(s1[t][r]) = Range(s2[t][r])

\* C7 as stated: a second run of RandomAssigner from the same seed state returns
\* the schedule of the first, on a new instance and on the same instance alike.
C7_SeededRunsAgree ==
    (algo = "random" /\ run_no = 2 /\ pc = "returned") => SameSchedule(response, first_schedule)

\* C7 as amended: a second run of RandomAssigner from the same seed state on a
\* newly constructed instance returns the schedule of the first run, list by list
\* (every round it has produced is the round the first run produced).
C7_SeededFreshRunsAgree ==
    (algo = "random" /\ run_no = 2 /\ fresh) =>
        /\ Len(results) <= Len(first_schedule)
        /\ \A t \in DOMAIN results : results[t] = first_schedule[t]
        /\ pc = "returned" => response = first_schedule

\* A second seeded run on a new instance has returned two different rounds.
C7_Witness ==
    /\ algo = "random"
    /\ run_no = 2
    /\ fresh
    /\ pc = "returned"
    /\ total_participants >= 3
    /\ Len(response) = 2
    /\ response[1] # response[2]
    /\ response[1][1] # <<1>>

\* C8: the values of calc_pair_frequencies(schedule) sum to the sum over rounds and
\* rooms of C(roomSize, 2), and the value of each unordered pair is the number of
\* rounds in which the two shared a room.
C8_PairFrequencies ==
    pc = "evaluated" =>
        /\ SumOver(pair_frequencies, DOMAIN pair_frequencies)
             = SumOver([t \in DOMAIN response |->
                           SumOver([r \in DOMAIN response[t] |-> Choose2(Len(response[t][r]))],
                                   DOMAIN response[t])],
                       DOMAIN response)
        /\ \A k \in AllPairs : Count(pair_frequencies, k) = RoundsTogether(response, k)
        /\ DOMAIN pair_frequencies \subseteq AllPairs

\* A schedule in which some pair met twice and some pair never has been evaluated.
C8_Witness ==
    /\ pc = "evaluated"
    /\ Len(response) = 2
    /\ total_rooms >= 2
    /\ \E k \in DOMAIN pair_frequencies : pair_frequencies[k] = 2
    /\ \E k \in AllPairs : k \notin DOMAIN pair_frequencies

\* Sum of the PairHistory counts between x and the participants of members.
Score(x, members) == SumOver([m \in members |-> Count(pair_history, {x, m})], members)

\* C9: a placement of GreedyAssigner with a non-empty pool places a pool member
\* whose score is minimal over the pool, the earliest such member in the pool's order.
C9_FirstMinimalPlaced ==
    [][(algo = "greedy" /\ pc = "fill" /\ participants_copy # <<>>) =>
          LET members == Range(round_assignment[room])
              c == candidate'
          IN /\ round_assignment'[room] = Append(round_assignment[room], c)
             /\ assigned' = assigned \cup {c}
             /\ \E k \in DOMAIN participants_copy :
                   /\ participants_copy[k] = c
                   /\ \A m \in DOMAIN participants_copy :
                         Score(participants_copy[m], members) >= Score(c, members)
                   /\ \A m \in 1..(k - 1) :
                         Score(participants_copy[m], members) > Score(c, members)]_vars

\* The last placement joined a non-empty room in a later round, choosing a member
\* that had met the room less often than a member still in the pool.
C9_Witness ==
    /\ algo = "greedy"
    /\ pc = "fill"
    /\ Len(results) >= 1
    /\ \E r \in DOMAIN round_assignment :
          /\ Len(round_assignment[r]) >= 2
          /\ round_assignment[r][Len(round_assignment[r])] = candidate
          /\ LET before == Range(round_assignment[r]) \ {candidate}
             IN \E x \in Range(participants_copy) :
                   Score(x, before) > Score(candidate, before) - Cardinality(before)

\* PairHistory counts every meeting of a pair once: the completed rounds, and the
\* round under construction while the room loop runs.
HistoryCounts ==
    algo = "greedy" =>
        /\ \A k \in AllPairs :
              Count(pair_history, k) =
                  RoundsTogether(results, k)
                  + (IF pc = "fill" /\ k \in SharedPairs(round_assignment) THEN 1 ELSE 0)
        /\ DOMAIN pair_history \subseteq AllPairs
        /\ pc \in {"returned", "evaluated"} =>
              \A k \in DOMAIN calc_pair_frequencies(response) :
                  Count(pair_history, k) = calc_pair_frequencies(response)[k]

\* C10: the PairHistory count of every unordered pair of distinct participants is
\* the number of produced rounds in which the two shared a room, never decreases,
\* and agrees with calc_pair_frequencies of the returned schedule on the pairs
\* that met.
C10_HistoryIsPairFrequency ==
    /\ []HistoryCounts
    /\ [][\A k \in AllPairs : Count(pair_history', k) >= Count(pair_history, k)]_vars

\* A run of GreedyAssigner has returned two rounds with a pair that met once and
\* a pair that never met.
C10_Witness ==
    /\ algo = "greedy"
    /\ pc = "returned"
    /\ Len(response) = 2
    /\ total_rooms >= 2
    /\ \E k \in AllPairs : Count(pair_history, k) = 1
    /\ \E k \in AllPairs : Count(pair_history, k) = 0

----------------------------------------------------------------------------
\* While a room is below capacity the pool and the placed participants split
\* 1..N, the pool lists nobody twice and is not empty; between rounds and after
\* the return the pool of the last round is empty and everybody was placed.
PoolAndAssignedSplit ==
    algo = "greedy" =>
        /\ pc = "fill" =>
              /\ Range(participants_copy) \cap assigned = {}
              /\ Range(participants_copy) \cup assigned = 1..total_participants
              /\ Len(participants_copy) + Cardinality(assigned) = total_participants
              /\ participants_copy # <<>>
        /\ (pc \in {"round", "returned", "evaluated"} /\ results # <<>>) =>
              /\ participants_copy = <<>>
              /\ assigned = 1..total_participants
        /\ pc # "raised"

\* An iteration of the while loop takes its candidate from the pool without a
\* draw of the generator (the fallback branch draws one), places it, and the
\* round ends exactly when all N participants are placed.
OnePlacementPerIteration ==
    (algo = "greedy" /\ pc = "fill") =>
        /\ candidate' \in Range(participants_copy)
        /\ candidate' \notin assigned
        /\ assigned' = assigned \cup {candidate'}
        /\ Len(participants_copy') = Len(participants_copy) - 1
        /\ rng_pos' = rng_pos /\ rng_stream' = rng_stream
        /\ pc' \in {"fill", "round", "returned"}
        /\ pc' # "fill" <=> Cardinality(assigned') = total_participants
        /\ pc' # "fill" => Len(results') = Len(results) + 1

\* C11: in every round of GreedyAssigner on valid input the pool and the set of
\* assigned participants are disjoint and together hold all N participants at
\* every iteration of the room-filling loop, so the pool is not empty while a
\* room is below capacity: the random fallback is never taken, every iteration
\* places exactly one participant and a round ends after exactly N placements.
C11_PoolNeverExhausted ==
    /\ []PoolAndAssignedSplit
    /\ [][OnePlacementPerIteration]_vars

\* The second round of a run with several rooms is under way: somebody is placed,
\* somebody is still in the pool, and the first room is full.
C11_Witness ==
    /\ algo = "greedy"
    /\ pc = "fill"
    /\ Len(results) >= 1
    /\ room >= 2
    /\ assigned # {}
    /\ Len(participants_copy) >= 2

====
